---- MODULE Spec2Model ----
(***************************************************************************)
(* Melbourne event and news discovery agent.                               *)
(*                                                                         *)
(* Spec      one run of the two-call orchestrator run_agent (main.py and   *)
(*           app.py) together with the front end's handling of what it     *)
(*           returns or raises.                                            *)
(* SpecTools the two search tools and the budget analyzer of tools.py,     *)
(*           each applied once to an input drawn from bounded sets.        *)
(* SpecSave  save_events of tools.py called again and again while the      *)
(*           clock advances.                                               *)
(*                                                                         *)
(* A Python string is a sequence of tokens (TLA+ strings); an f-string is  *)
(* the concatenation of its pieces.  Payload coming from outside (queries, *)
(* titles, error descriptions) is made of tokens that differ from the      *)
(* literal pieces of the program's templates.                              *)
(***************************************************************************)
EXTENDS Integers, Sequences, FiniteSets, TLC

\* Most tool calls the model proposes in its first response.
MaxCalls == 3
\* Most records one search call returns.
MaxHits == 1
\* Last clock reading of SpecSave.
MaxClock == 2
\* Most lines of the text handed to the budget analyzer.
MaxLines == 6

VARIABLES
    frontend,          \* "cli" (main.py) or "app" (app.py)
    pc,                \* Idle, Planning, Executing, Rendering, Parse, Done, Failed
    tool_calls,        \* response.tool_calls of the first model call
    idx,               \* position of the for loop over tool_calls
    results,           \* run_agent's list of result entries
    combined_results,  \* the block put into the second prompt
    output,            \* what run_agent returned (final_response.content)
    shown,             \* what the front end displays at the end
    files,             \* the working directory: filename -> content
    now,               \* the clock, in seconds
    log,               \* history: model calls and tool executions, in order
    fate,              \* per call the loop has processed: skipped, ok or raised,
                       \* with what the outside world did and the text it gave
    invoked,           \* history: names of the tools whose function was called
    failedFrom,        \* history: the state the run was in when it failed
    tool_in,           \* SpecTools, SpecSave: the direct tool call
    tool_out           \* SpecTools, SpecSave: what it returned

vars == <<frontend, pc, tool_calls, idx, results, combined_results, output,
          shown, files, now, log, fate, invoked, failedFrom, tool_in, tool_out>>

runVars == <<frontend, pc, tool_calls, idx, results, combined_results, output,
             shown, log, fate, invoked, failedFrom>>

----------------------------------------------------------------------------
(* Strings *)

RECURSIVE Join(_, _)
\* sep.join(parts)
Join(parts, sep) ==
    IF parts = <<>> THEN <<>>
    ELSE IF Len(parts) = 1 THEN parts[1]
    ELSE parts[1] \o sep \o Join(Tail(parts), sep)

\* s[i : i + Len(t)] = t
HasAt(s, i, t) ==
    /\ i >= 1
    /\ i + Len(t) - 1 <= Len(s)
    /\ SubSeq(s, i, i + Len(t) - 1) = t

StartsWith(s, t) == HasAt(s, 1, t)

None == <<"None">>

----------------------------------------------------------------------------
(* The tool registry *)

\* tools = [event_search_tool, news_search_tool, save_tool, budget_tool]
tools ==
    <<"search_local_events", "search_melbourne_news", "save_events",
      "analyze_event_budget">>

ToolNames == {tools[i] : i \in 1..Len(tools)}

\* A lookup that falls back to the first tool when the name is not found.
LookupOrFirst(tool_name) ==
    IF \E i \in 1..Len(tools) : tools[i] = tool_name
    THEN CHOOSE i \in 1..Len(tools) : tools[i] = tool_name
    ELSE 1

\* for tool in tools: if tool.name == tool_name: ... break
\* The position of the first tool of that name, 0 when the loop finds none.
Lookup(tool_name) ==
    IF \E i \in 1..Len(tools) : tools[i] = tool_name
    THEN CHOOSE i \in 1..Len(tools) :
            /\ tools[i] = tool_name
            /\ \A j \in 1..(i - 1) : tools[j] # tool_name
    ELSE 0

\* The signatures of the tool functions.
Required(name) ==
    CASE name = "search_local_events"   -> {"query"}
      [] name = "search_melbourne_news" -> {"topic"}
      [] name = "save_events"           -> {"event_data"}
      [] name = "analyze_event_budget"  -> {"event_info"}

Optional(name) ==
    IF name = "analyze_event_budget" THEN {"max_budget"} ELSE {}

\* tool.func on tool_args binds: every required parameter given, none unknown.
Binds(name, args) ==
    /\ Required(name) \subseteq DOMAIN args
    /\ DOMAIN args \subseteq (Required(name) \cup Optional(name))

Returned(text) == [raised |-> FALSE, text |-> text]
Raised(text) == [raised |-> TRUE, text |-> text]

----------------------------------------------------------------------------
(* tools.py: the two search tools *)

city == "Melbourne"

\* "="*60 and "="*70
Rule60 == "=*60"
Rule70 == "=*70"

\* search_queries of search_local_events
EventQueries(query) ==
    << query \o <<" events in ", city, " Australia this week">>,
       query \o <<" in ", city, " VIC upcoming events">>,
       <<"things to do ", city, " ">> \o query \o <<" this weekend">> >>

\* news_queries of search_melbourne_news
NewsQueries(topic) ==
    << <<"Melbourne Australia ">> \o topic \o <<" news today">>,
       <<"Melbourne ">> \o topic \o <<" latest updates">> >>

\* One record of ddgs.text, formatted.
FormatHit(r) ==
    <<"- Title: ", r.title, "\n  URL: ", r.href, "\n  Description: ", r.body>>

\* "\n".join([... for r in search_results])
FormatHits(hits) ==
    Join([i \in 1..Len(hits) |-> FormatHit(hits[i])], <<"\n">>)

\* The body of the for loop of search_local_events for one variant: the try
\* branch appends the labelled results, the except branch the failure text.
\* answer is what ddgs.text did: [ok |-> TRUE, hits |-> ...] or
\* [ok |-> FALSE, err |-> ...].
EventSegment(search_query, answer) ==
    IF answer.ok
    THEN <<"Search Query: ">> \o search_query \o <<"\n\n", "Results:\n">>
            \o FormatHits(answer.hits)
    ELSE <<"Search failed for '">> \o search_query \o <<"': ">> \o answer.err

\* The same for search_melbourne_news.
NewsSegment(news_query, answer) ==
    IF answer.ok
    THEN <<"News Search: ">> \o news_query \o <<"\n\n", "Results:\n">>
            \o FormatHits(answer.hits)
    ELSE <<"News search failed for '">> \o news_query \o <<"': ">> \o answer.err

RECURSIVE EventLoopAbort(_, _, _, _)
\* The loop with one try around it: the first failed search ends it.
EventLoopAbort(search_queries, answers, i, acc) ==
    IF i > Len(search_queries) THEN acc
    ELSE IF ~answers[i].ok
         THEN [results |-> Append(acc.results,
                              <<"Search failed for '">> \o search_queries[i]
                                 \o <<"': ">> \o answers[i].err),
               calls   |-> Append(acc.calls, search_queries[i]),
               slept   |-> acc.slept]
         ELSE EventLoopAbort(search_queries, answers, i + 1,
                [results |-> Append(acc.results,
                               <<"Search Query: ">> \o search_queries[i]
                                  \o <<"\n\n", "Results:\n">>
                                  \o Join([h \in 1..Len(answers[i].hits) |->
                                             <<"- Title: ", answers[i].hits[h].title,
                                               "\n  URL: ", answers[i].hits[h].href,
                                               "\n  Description: ",
                                               answers[i].hits[h].body>>],
                                          <<"\n">>)),
                 calls   |-> Append(acc.calls, search_queries[i]),
                 slept   |-> acc.slept + 1])

RECURSIVE EventLoop(_, _, _, _)
\* for search_query in search_queries: ...   acc is the loop's state: the
\* results list, the queries handed to ddgs.text so far, the seconds slept.
EventLoop(search_queries, answers, i, acc) ==
    IF i > Len(search_queries) THEN acc
    ELSE EventLoop(search_queries, answers, i + 1,
            [results |-> Append(acc.results,
                                EventSegment(search_queries[i], answers[i])),
             calls   |-> Append(acc.calls, search_queries[i]),
             slept   |-> acc.slept + (IF answers[i].ok THEN 1 ELSE 0)])

RECURSIVE NewsLoop(_, _, _, _)
NewsLoop(news_queries, answers, i, acc) ==
    IF i > Len(news_queries) THEN acc
    ELSE NewsLoop(news_queries, answers, i + 1,
            [results |-> Append(acc.results,
                                NewsSegment(news_queries[i], answers[i])),
             calls   |-> Append(acc.calls, news_queries[i]),
             slept   |-> acc.slept + (IF answers[i].ok THEN 1 ELSE 0)])

EmptyLoop == [results |-> <<>>, calls |-> <<>>, slept |-> 0]

\* search_local_events(query): what it returns, the search calls it made.
search_local_events(query, answers) ==
    LET done == EventLoop(EventQueries(query), answers, 1, EmptyLoop)
    IN  [ret   |-> Returned(<<"\n\n", Rule60>> \o Join(done.results, <<"\n\n">>)),
         calls |-> done.calls,
         slept |-> done.slept]

\* search_melbourne_news(topic)
search_melbourne_news(topic, answers) ==
    LET done == NewsLoop(NewsQueries(topic), answers, 1, EmptyLoop)
    IN  [ret   |-> Returned(<<"\n\n", Rule60>> \o Join(done.results, <<"\n\n">>)),
         calls |-> done.calls,
         slept |-> done.slept]

----------------------------------------------------------------------------
(* tools.py: save_events *)

\* datetime.now().strftime(...) at clock reading t
Stamp(t) == ToString(t)

\* filename = f"melbourne_events_{timestamp}.txt"
Filename(t) == <<"melbourne_events_", Stamp(t), ".txt">>

\* formatted_content
FormattedContent(event_data, t) ==
    <<"\n", Rule70, "\n",
      "                MELBOURNE EVENT AND NEWS DISCOVERY RESULTS\n",
      Rule70, "\nGenerated: ", Stamp(t),
      "\nLocation: Melbourne, Victoria, Australia\n\n">>
    \o event_data
    \o <<"\n\n", Rule70,
         "\nNote: Please verify event details and news on official sources before relying on this information.\n\nRecommended Melbourne event sources:\n- TimeOut Melbourne\n- Eventbrite Melbourne\n- What's On Melbourne\n- The Age (local newspaper)\n- Herald Sun (local newspaper)\n",
         Rule70, "\n    ">>

\* What the file system can do to open(filename, "w") followed by f.write:
\* both succeed; open fails; open truncates the file and write fails.
IoOutcomes == {"ok", "open_fails", "write_fails"}

IoError(io) ==
    IF io = "open_fails" THEN <<"[Errno 13] Permission denied">>
    ELSE <<"[Errno 28] No space left on device">>

\* save_events(event_data) at clock reading t on directory dir: what it
\* returns and the directory afterwards.
save_events(event_data, t, dir, io) ==
    LET filename == Filename(t)
    IN  IF io = "ok"
        THEN [ret |-> Returned(<<"Events and news successfully saved to ">>
                               \o filename),
              dir |-> [f \in DOMAIN dir \cup {filename} |->
                          IF f = filename THEN FormattedContent(event_data, t)
                          ELSE dir[f]]]
        ELSE [ret |-> Returned(<<"Error saving file: ">> \o IoError(io)),
              dir |-> IF io = "write_fails"
                      THEN [f \in DOMAIN dir \cup {filename} |->
                               IF f = filename THEN <<>> ELSE dir[f]]
                      ELSE dir]

----------------------------------------------------------------------------
(* tools.py: analyze_event_budget *)

\* The text handed to the analyzer is tokenised so that every keyword is a
\* sequence of whole tokens: words, single spaces, "$", digits, "\n".

\* free_keywords
free_keywords ==
    << <<"free">>, <<"no", " ", "entry", " ", "fee">>, <<"$", "0">>,
       <<"free", " ", "entry">>, <<"no", " ", "charge">>, <<"complimentary">>,
       <<"free", " ", "admission">> >>

\* budget_keywords
budget_keywords ==
    << <<"$">>, <<"aud">>, <<"dollar">>, <<"price">>, <<"ticket">>, <<"cost">>,
       <<"fee">> >>

\* str.lower() on one token
LowerToken(c) ==
    CASE c = "Free"   -> "free"
      [] c = "FREE"   -> "free"
      [] c = "Ticket" -> "ticket"
      [] c = "AUD"    -> "aud"
      [] c = "Gig"    -> "gig"
      [] OTHER        -> c

\* event_info.lower()
Lower(s) == [i \in 1..Len(s) |-> LowerToken(s[i])]

RECURSIVE SplitAcc(_, _, _, _)
SplitAcc(s, sep, i, acc) ==
    IF i > Len(s) THEN acc
    ELSE IF s[i] = sep
         THEN SplitAcc(s, sep, i + 1, Append(acc, <<>>))
         ELSE SplitAcc(s, sep, i + 1,
                       [acc EXCEPT ![Len(acc)] = Append(@, s[i])])

\* s.split(sep): always at least one piece
Split(s, sep) == SplitAcc(s, sep, 1, << <<>> >>)

Whitespace == {" ", "\t", "\n"}

RECURSIVE LStrip(_)
LStrip(s) ==
    IF s # <<>> /\ s[1] \in Whitespace THEN LStrip(Tail(s)) ELSE s

RECURSIVE RStrip(_)
RStrip(s) ==
    IF s # <<>> /\ s[Len(s)] \in Whitespace
    THEN RStrip(SubSeq(s, 1, Len(s) - 1)) ELSE s

\* line.strip()
Strip(s) == RStrip(LStrip(s))

\* keyword in line
Contains(line, keyword) ==
    \E i \in 1..Len(line) : HasAt(line, i, keyword)

\* any(keyword in line for keyword in keywords)
AnyIn(line, keywords) ==
    \E k \in 1..Len(keywords) : Contains(line, keywords[k])

RECURSIVE ClassifyBoth(_, _, _)
\* Two independent ifs: a line with a free and a paid keyword goes to both.
ClassifyBoth(lines, i, acc) ==
    IF i > Len(lines) THEN acc
    ELSE ClassifyBoth(lines, i + 1,
            [free_events   |-> IF AnyIn(lines[i], free_keywords)
                               THEN Append(acc.free_events, Strip(lines[i]))
                               ELSE acc.free_events,
             budget_events |-> IF AnyIn(lines[i], budget_keywords)
                               THEN Append(acc.budget_events, Strip(lines[i]))
                               ELSE acc.budget_events])

RECURSIVE Classify(_, _, _)
\* for line in lines: if any(free) ... elif any(budget) ...
Classify(lines, i, acc) ==
    IF i > Len(lines) THEN acc
    ELSE IF AnyIn(lines[i], free_keywords)
         THEN Classify(lines, i + 1,
                 [acc EXCEPT !.free_events = Append(@, Strip(lines[i]))])
         ELSE IF AnyIn(lines[i], budget_keywords)
              THEN Classify(lines, i + 1,
                      [acc EXCEPT !.budget_events = Append(@, Strip(lines[i]))])
              ELSE Classify(lines, i + 1, acc)

\* The slice [:5] of the two lists in the report.
ListCap == 5

\* A slice that is off by one: xs[:n + 1]
TakeOneMore(xs, n) == SubSeq(xs, 1, IF Len(xs) < n + 1 THEN Len(xs) ELSE n + 1)

\* xs[:n]
Take(xs, n) == SubSeq(xs, 1, IF Len(xs) < n THEN Len(xs) ELSE n)

\* The buckets analyze_event_budget fills.
Buckets(event_info) ==
    Classify(Split(Lower(event_info), "\n"), 1,
             [free_events |-> <<>>, budget_events |-> <<>>])

\* analyze_event_budget(event_info, max_budget): the report
analyze_event_budget(event_info, max_budget) ==
    LET b == Buckets(event_info)
    IN  Returned(
          <<"\nBUDGET ANALYSIS (Maximum Budget: $">> \o max_budget
          \o <<" AUD)\n\nFREE EVENTS FOUND: ", ToString(Len(b.free_events)), "\n">>
          \o (IF b.free_events # <<>>
              THEN Join(Take(b.free_events, ListCap), <<"\n">>)
              ELSE <<"No clearly marked free events found in the search results">>)
          \o <<"\n\nPAID EVENTS FOUND: ", ToString(Len(b.budget_events)), "\n">>
          \o (IF b.budget_events # <<>>
              THEN Join(Take(b.budget_events, ListCap), <<"\n">>)
              ELSE <<"No clearly marked paid events found in the search results">>)
          \o <<"\n\nTIP: Always verify prices on official event pages as pricing may have changed.\n    ">>)

----------------------------------------------------------------------------
(* Calling a tool by name: tool.func on tool_args *)

NoArgs == [p \in {} |-> <<>>]

\* The default of analyze_event_budget's max_budget.
DefaultBudget == <<"100">>

\* What the outside world does during one tool call: the answer of each
\* search call, and what the file system does to the write.
NoEnv == [answers |-> <<>>, io |-> "ok"]

\* tool.func on tool_args for the registered tool `name` at clock reading t on
\* directory dir.  Arguments that do not fit the signature raise TypeError
\* before the body runs.
tool_func(name, tool_args, env, t, dir) ==
    IF ~Binds(name, tool_args)
    THEN [ret |-> Raised(<<name, "() got unexpected or missing arguments">>),
          dir |-> dir, calls |-> <<>>, slept |-> 0]
    ELSE CASE name = "search_local_events" ->
                LET r == search_local_events(tool_args["query"], env.answers)
                IN  [ret |-> r.ret, dir |-> dir, calls |-> r.calls,
                     slept |-> r.slept]
           [] name = "search_melbourne_news" ->
                LET r == search_melbourne_news(tool_args["topic"], env.answers)
                IN  [ret |-> r.ret, dir |-> dir, calls |-> r.calls,
                     slept |-> r.slept]
           [] name = "save_events" ->
                LET r == save_events(tool_args["event_data"], t, dir, env.io)
                IN  [ret |-> r.ret, dir |-> r.dir, calls |-> <<>>, slept |-> 0]
           [] name = "analyze_event_budget" ->
                [ret |-> analyze_event_budget(
                            tool_args["event_info"],
                            IF "max_budget" \in DOMAIN tool_args
                            THEN tool_args["max_budget"] ELSE DefaultBudget),
                 dir |-> dir, calls |-> <<>>, slept |-> 0]

----------------------------------------------------------------------------
(* main.py / app.py: run_agent *)

\* results.append(f"Tool: {tool_name}\nResult: {result}")
SuccessEntry(tool_name, result) ==
    <<"Tool: ", tool_name, "\nResult: ">> \o result

\* error_msg = f"Error with {tool_name}: {str(e)}"
FailureEntry(tool_name, e) ==
    <<"Error with ", tool_name, ": ">> \o e

\* no try around the call: the exception leaves run_agent
ToolBoundaryNoCatch(tool_name, ret) ==
    IF ret.raised
    THEN [entries |-> <<>>, escapes |-> TRUE]
    ELSE [entries |-> <<SuccessEntry(tool_name, ret.text)>>, escapes |-> FALSE]

\* except Exception as e: pass
ToolBoundarySwallow(tool_name, ret) ==
    IF ret.raised
    THEN [entries |-> <<>>, escapes |-> FALSE]
    ELSE [entries |-> <<SuccessEntry(tool_name, ret.text)>>, escapes |-> FALSE]

\* try: result = tool.func(...); results.append(...)
\* except Exception as e: results.append(error_msg)
\* The entries appended to results, and whether the exception leaves
\* run_agent.
ToolBoundary(tool_name, ret) ==
    IF ret.raised
    THEN [entries |-> <<FailureEntry(tool_name, ret.text)>>, escapes |-> FALSE]
    ELSE [entries |-> <<SuccessEntry(tool_name, ret.text)>>, escapes |-> FALSE]

Placeholder == <<"No tools were executed.">>

\* combined_results = "\n\n".join(results)
CombineNoPlaceholder(rs) == Join(rs, <<"\n\n">>)

\* combined_results = "\n\n".join(results) if results else "No tools were executed."
Combine(rs) ==
    IF rs # <<>> THEN Join(rs, <<"\n\n">>) ELSE Placeholder

----------------------------------------------------------------------------
(* app.py: run_agent, the same loop written a second time *)

\* tools = [event_search_tool, news_search_tool, save_tool, budget_tool]
app_tools ==
    <<"search_local_events", "search_melbourne_news", "save_events",
      "analyze_event_budget">>

\* for tool in tools: if tool.name == tool_name: ... break
AppLookup(tool_name) ==
    IF \E i \in 1..Len(app_tools) : app_tools[i] = tool_name
    THEN CHOOSE i \in 1..Len(app_tools) :
            /\ app_tools[i] = tool_name
            /\ \A j \in 1..(i - 1) : app_tools[j] # tool_name
    ELSE 0

\* results.append(f"Tool: {tool_name}\nResult: {result}")
AppSuccessEntry(tool_name, result) ==
    <<"Tool: ", tool_name, "\nResult: ">> \o result

\* error_msg = f"Error with {tool_name}: {str(e)}"
AppFailureEntry(tool_name, e) ==
    <<"Error with ", tool_name, ": ">> \o e

\* try: ... results.append(...) except Exception as e: results.append(error_msg)
AppToolBoundary(tool_name, ret) ==
    IF ret.raised
    THEN [entries |-> <<AppFailureEntry(tool_name, ret.text)>>, escapes |-> FALSE]
    ELSE [entries |-> <<AppSuccessEntry(tool_name, ret.text)>>, escapes |-> FALSE]

AppPlaceholder == <<"No tools were executed.">>

\* combined_results = "\n".join(results) if results else "No tools were executed."
AppCombineOneNewline(rs) ==
    IF rs # <<>> THEN Join(rs, <<"\n">>) ELSE AppPlaceholder

\* combined_results = "\n\n".join(results) if results else "No tools were executed."
AppCombine(rs) ==
    IF rs # <<>> THEN Join(rs, <<"\n\n">>) ELSE AppPlaceholder

\* Each front end runs its own copy of the loop.
ToolsOf(fe) == IF fe = "cli" THEN tools ELSE app_tools

LookupOf(fe, tool_name) ==
    IF fe = "cli" THEN Lookup(tool_name) ELSE AppLookup(tool_name)

BoundaryOf(fe, tool_name, ret) ==
    IF fe = "cli" THEN ToolBoundary(tool_name, ret)
    ELSE AppToolBoundary(tool_name, ret)

CombineOf(fe, rs) == IF fe = "cli" THEN Combine(rs) ELSE AppCombine(rs)

----------------------------------------------------------------------------
(* The structured output and its parser *)

\* MelbourneDiscoveryResponse of main.py
CliFields ==
    {"query", "city", "events_found", "news_highlights", "recommendations",
     "budget_friendly_options", "friend_group_suggestions", "tools_used"}

\* MelbourneDiscoveryResponse of app.py
AppFields ==
    {"query", "city", "events_found", "news_highlights", "recommendations",
     "budget_friendly_options", "friend_group_suggestions", "sources",
     "tools_used"}

SchemaFields(fe) == IF fe = "cli" THEN CliFields ELSE AppFields

\* parser.parse(output): the text must be JSON carrying every field of the
\* front end's model; fields the model does not declare are ignored.
ParseOk(fe, out) ==
    /\ out.json
    /\ SchemaFields(fe) \subseteq out.fields

\* The structured_response of a successful parse.
Parsed(fe, out) ==
    [fields |-> SchemaFields(fe), tools_used |-> out.tools_used]

----------------------------------------------------------------------------
(* The front ends: what they show at the end of a run *)

NothingShown == [kind |-> "none", value |-> None, error |-> None, tips |-> FALSE]

\* the body of the inner try: the structured response, field by field
ShowStructured(fe, out) ==
    [kind |-> "structured", value |-> Parsed(fe, out), error |-> None,
     tips |-> FALSE]

\* A parse error handled like a failed run.
ShowRawAsError(out, parse_error) ==
    [kind |-> "error", value |-> None, error |-> parse_error, tips |-> TRUE]

\* except Exception as parse_error: the raw output and the parse error
ShowRaw(out, parse_error) ==
    [kind |-> "raw", value |-> out, error |-> parse_error, tips |-> FALSE]

\* except Exception as e: the error and the troubleshooting tips
ShowError(e) ==
    [kind |-> "error", value |-> None, error |-> e, tips |-> TRUE]

----------------------------------------------------------------------------
(* The inputs of a run *)

Hit == [title |-> "Jazz Fest", href |-> "https://a.example/jazz",
        body |-> "Live jazz by the river"]

SearchFails == [ok |-> FALSE, hits |-> <<>>, err |-> <<"RatelimitException">>]

SearchFinds(k) == [ok |-> TRUE, hits |-> [i \in 1..k |-> Hit], err |-> <<>>]

\* What the search service does to the n search calls of one tool call
\* during a run: it answers all of them, none of them, or all but the second.
\* (SpecTools draws every combination.)
RunAnswers(n) ==
    {[i \in 1..n |-> SearchFinds(1)],
     [i \in 1..n |-> SearchFails],
     [i \in 1..n |-> IF i = 2 THEN SearchFails ELSE SearchFinds(1)]}

\* The argument values the model passes.
ArgValue(param) ==
    CASE param = "query"      -> <<"jazz">>
      [] param = "topic"      -> <<"traffic">>
      [] param = "event_data" -> <<"Jazz Fest on Friday">>
      [] param = "event_info" ->
            <<"Free", " ", "Gig", "\n", "Ticket", " ", "$", "20">>

GoodArgs(name) == [p \in Required(name) |-> ArgValue(p)]

\* A name the registry does not hold.
UnknownTool == "get_weather"

\* The tool calls the model can propose: each registered tool with fitting
\* arguments or with none, and an unregistered name.
Calls ==
    {[name |-> n, args |-> a] : n \in ToolNames, a \in {NoArgs}}
    \cup {[name |-> n, args |-> GoodArgs(n)] : n \in ToolNames}
    \cup {[name |-> UnknownTool, args |-> NoArgs]}

Plans == UNION {[1..n -> Calls] : n \in 0..MaxCalls}

\* The outside world during one call of the registered tool `name`.
ToolEnvs(name, tool_args) ==
    IF ~Binds(name, tool_args) THEN {NoEnv}
    ELSE CASE name = "search_local_events" ->
                {[answers |-> a, io |-> "ok"] :
                    a \in RunAnswers(Len(EventQueries(<<>>)))}
           [] name = "search_melbourne_news" ->
                {[answers |-> a, io |-> "ok"] :
                    a \in RunAnswers(Len(NewsQueries(<<>>)))}
           [] name = "save_events" ->
                {[answers |-> <<>>, io |-> i] : i \in IoOutcomes}
           [] OTHER -> {NoEnv}

\* The second response of the model: text that is JSON or not, the fields it
\* carries, and the tools_used list it reports.
NotJson == [json |-> FALSE, fields |-> {}, tools_used |-> <<>>]

ToolsUsedChoices ==
    {<<>>, <<"search_local_events">>, <<"save_events", "search_local_events">>,
     <<UnknownTool>>}

Outputs ==
    {NotJson}
    \cup {[json |-> TRUE, fields |-> AppFields \ {f}, tools_used |-> <<>>] :
            f \in AppFields}
    \cup {[json |-> TRUE, fields |-> AppFields, tools_used |-> u] :
            u \in ToolsUsedChoices}

\* No direct tool call yet.
NoToolIn == [tool |-> "none", arg |-> <<>>, answers |-> <<>>, max_budget |-> <<>>]
NotCalled == [done |-> FALSE, ret |-> Returned(<<>>), calls |-> <<>>, slept |-> 0]

ModelError == <<"APIConnectionError">>

ParseError == <<"OutputParserException">>

NoOutput == [json |-> FALSE, fields |-> {}, tools_used |-> <<"no output">>]

----------------------------------------------------------------------------
(* The run *)

\* The events of the log: the two kinds of model call, and the execution of
\* the tool function for the i-th proposed call.
LlmWithTools == [ev |-> "llm_with_tools", i |-> 0]
LlmPlain == [ev |-> "llm", i |-> 0]
ToolRun(i) == [ev |-> "tool", i |-> i]

Init ==
    /\ frontend \in {"cli", "app"}
    /\ pc = "Idle"
    /\ tool_calls = <<>>
    /\ idx = 0
    /\ results = <<>>
    /\ combined_results = None
    /\ output = NoOutput
    /\ shown = NothingShown
    /\ files = [f \in {} |-> <<>>]
    /\ now = 0
    /\ log = <<>>
    /\ fate = <<>>
    /\ invoked = {}
    /\ failedFrom = "none"
    /\ tool_in = NoToolIn
    /\ tool_out = NotCalled

\* The locals of run_agent are gone once it returns or raises.
DropLocals ==
    /\ tool_calls' = <<>>
    /\ idx' = 0
    /\ results' = <<>>
    /\ combined_results' = None
    /\ fate' = <<>>

\* The front end calls run_agent(query), which sends the first request:
\* llm_with_tools.invoke([...]).
Start ==
    /\ pc = "Idle"
    /\ pc' = "Planning"
    /\ log' = Append(log, LlmWithTools)
    /\ UNCHANGED <<frontend, tool_calls, idx, results, combined_results,
                   output, shown, files, now, fate, invoked, failedFrom,
                   tool_in, tool_out>>

\* The first response arrives with its tool calls; results = [].
PlanReturn ==
    /\ pc = "Planning"
    /\ \E plan \in Plans : tool_calls' = plan
    /\ idx' = 1
    /\ results' = <<>>
    /\ pc' = "Executing"
    /\ UNCHANGED <<frontend, combined_results, output, shown, files, now, log,
                   fate, invoked, failedFrom, tool_in, tool_out>>

\* The first model call raises: run_agent raises, and the front end's outer
\* except shows the error and the troubleshooting tips.
PlanFail ==
    /\ pc = "Planning"
    /\ pc' = "Failed"
    /\ failedFrom' = "Planning"
    /\ shown' = ShowError(ModelError)
    /\ DropLocals
    /\ UNCHANGED <<frontend, output, files, now, log, invoked,
                   tool_in, tool_out>>

\* One iteration of "for tool_call in response.tool_calls".
ExecuteToolCall ==
    /\ pc = "Executing"
    /\ idx <= Len(tool_calls)
    /\ LET tool_name == tool_calls[idx].name
           tool_args == tool_calls[idx].args
           found     == LookupOf(frontend, tool_name)
           tool      == ToolsOf(frontend)[found]
       IN  IF found = 0
           THEN /\ idx' = idx + 1
                /\ fate' = Append(fate, [how |-> "skipped", env |-> NoEnv,
                                          text |-> <<>>])
                /\ UNCHANGED <<pc, results, files, now, log, invoked,
                               failedFrom, shown, tool_calls,
                               combined_results>>
           ELSE \E env \in ToolEnvs(tool, tool_args) :
                  LET r == tool_func(tool, tool_args, env, now, files)
                      b == BoundaryOf(frontend, tool_name, r.ret)
                  IN  /\ log' = Append(log, ToolRun(idx))
                      /\ invoked' = invoked \cup {tool}
                      /\ files' = r.dir
                      /\ now' = now + r.slept
                      /\ IF b.escapes
                         THEN /\ pc' = "Failed"
                              /\ failedFrom' = "Executing"
                              /\ shown' = ShowError(r.ret.text)
                              /\ DropLocals
                         ELSE /\ results' = results \o b.entries
                              /\ idx' = idx + 1
                              /\ fate' = Append(fate,
                                            [how  |-> IF r.ret.raised
                                                      THEN "raised" ELSE "ok",
                                             env  |-> env,
                                             text |-> r.ret.text])
                              /\ UNCHANGED <<pc, failedFrom, shown, tool_calls,
                                             combined_results>>
    /\ UNCHANGED <<frontend, output, tool_in, tool_out>>

\* The loop is over (or response.tool_calls was empty): the results are
\* combined and the second request is sent: llm.invoke(final_prompt).
FinishExecuting ==
    /\ pc = "Executing"
    /\ idx > Len(tool_calls)
    /\ combined_results' = CombineOf(frontend, results)
    /\ log' = Append(log, LlmPlain)
    /\ pc' = "Rendering"
    /\ UNCHANGED <<frontend, tool_calls, idx, results, output, shown, files,
                   now, fate, invoked, failedFrom, tool_in, tool_out>>

\* The second response arrives: return final_response.content.
RenderReturn ==
    /\ pc = "Rendering"
    /\ \E out \in Outputs : output' = out
    /\ pc' = "Parse"
    /\ DropLocals
    /\ UNCHANGED <<frontend, shown, files, now, log, invoked,
                   failedFrom, tool_in, tool_out>>

\* The second model call raises.
RenderFail ==
    /\ pc = "Rendering"
    /\ pc' = "Failed"
    /\ failedFrom' = "Rendering"
    /\ shown' = ShowError(ModelError)
    /\ DropLocals
    /\ UNCHANGED <<frontend, output, files, now, log, invoked,
                   tool_in, tool_out>>

\* A front end that starts the run again when the output does not parse.
ParseRetry ==
    /\ pc = "Parse"
    /\ IF ParseOk(frontend, output)
       THEN /\ shown' = ShowStructured(frontend, output)
            /\ pc' = "Done"
       ELSE /\ shown' = shown
            /\ pc' = "Idle"
    /\ UNCHANGED <<frontend, tool_calls, idx, results, combined_results,
                   output, files, now, log, fate, invoked, failedFrom,
                   tool_in, tool_out>>

\* The front end's inner try: parser.parse(output), then the structured
\* display, or the raw output with the parse error.
Parse ==
    /\ pc = "Parse"
    /\ shown' = IF ParseOk(frontend, output)
                THEN ShowStructured(frontend, output)
                ELSE ShowRaw(output, ParseError)
    /\ pc' = "Done"
    /\ UNCHANGED <<frontend, tool_calls, idx, results, combined_results,
                   output, files, now, log, fate, invoked, failedFrom,
                   tool_in, tool_out>>

Next ==
    \/ Start
    \/ PlanReturn
    \/ PlanFail
    \/ ExecuteToolCall
    \/ FinishExecuting
    \/ RenderReturn
    \/ RenderFail
    \/ Parse

Spec == Init /\ [][Next]_vars

----------------------------------------------------------------------------
(* The tools called directly *)

\* What one ddgs.text call can do.
Answers == {SearchFails} \cup {SearchFinds(k) : k \in 0..MaxHits}

Queries == {<<"jazz">>, <<"tech", " ", "meetups">>}

EventData == {<<"Jazz Fest on Friday">>, <<"Tech meetup on Monday">>}

\* Lines of event text: free, paid, both, neither.
LineChoices ==
    {<<"Free", " ", "Gig">>,
     <<" ", "Ticket", " ", "$", "20", " ">>,
     <<"free", " ", "entry", " ", "but", " ", "$", "5", " ", "donation">>,
     <<"Jazz", " ", "night">>}

\* Texts of up to MaxLines lines, each text made of at most two different
\* lines in any order.
EventInfos ==
    UNION {UNION {{Join(ls, <<"\n">>) : ls \in [1..n -> pair]} :
                    pair \in {{a, b} : a, b \in LineChoices}} :
             n \in 0..MaxLines}

Budgets == {<<"50">>, DefaultBudget}

\* The direct calls of the tools that read nothing but their arguments and
\* the answers of the search service.
ToolInputs ==
    {[tool |-> "search_local_events", arg |-> q, answers |-> a,
      max_budget |-> <<>>] :
        q \in Queries, a \in [1..Len(EventQueries(<<>>)) -> Answers]}
    \cup {[tool |-> "search_melbourne_news", arg |-> q, answers |-> a,
           max_budget |-> <<>>] :
        q \in Queries, a \in [1..Len(NewsQueries(<<>>)) -> Answers]}
    \cup {[tool |-> "analyze_event_budget", arg |-> e, answers |-> <<>>,
           max_budget |-> b] :
        e \in EventInfos, b \in Budgets}

InitTools ==
    /\ frontend = "cli"
    /\ pc = "Idle"
    /\ tool_calls = <<>>
    /\ idx = 0
    /\ results = <<>>
    /\ combined_results = None
    /\ output = NoOutput
    /\ shown = NothingShown
    /\ files = [f \in {} |-> <<>>]
    /\ now = 0
    /\ log = <<>>
    /\ fate = <<>>
    /\ invoked = {}
    /\ failedFrom = "none"
    /\ tool_in \in ToolInputs
    /\ tool_out = NotCalled

CallSearchLocalEvents ==
    /\ ~tool_out.done
    /\ tool_in.tool = "search_local_events"
    /\ LET r == search_local_events(tool_in.arg, tool_in.answers)
       IN  tool_out' = [done |-> TRUE, ret |-> r.ret, calls |-> r.calls, slept |-> r.slept]
    /\ UNCHANGED <<tool_in, files, now, runVars>>

CallSearchMelbourneNews ==
    /\ ~tool_out.done
    /\ tool_in.tool = "search_melbourne_news"
    /\ LET r == search_melbourne_news(tool_in.arg, tool_in.answers)
       IN  tool_out' = [done |-> TRUE, ret |-> r.ret, calls |-> r.calls, slept |-> r.slept]
    /\ UNCHANGED <<tool_in, files, now, runVars>>

CallAnalyzeEventBudget ==
    /\ ~tool_out.done
    /\ tool_in.tool = "analyze_event_budget"
    /\ tool_out' = [done |-> TRUE, ret |-> analyze_event_budget(tool_in.arg, tool_in.max_budget),
                    calls |-> <<>>, slept |-> 0]
    /\ UNCHANGED <<tool_in, files, now, runVars>>

NextTools ==
    \/ CallSearchLocalEvents
    \/ CallSearchMelbourneNews
    \/ CallAnalyzeEventBudget

SpecTools == InitTools /\ [][NextTools]_vars

----------------------------------------------------------------------------
(* save_events called directly *)

InitSave ==
    /\ Init
    /\ frontend = "cli"

CallSaveEvents ==
    \E event_data \in EventData, io \in IoOutcomes :
        LET r == save_events(event_data, now, files, io)
        IN  /\ tool_in' = [tool |-> "save_events", arg |-> event_data,
                           answers |-> <<>>, max_budget |-> <<>>,
                           io |-> io, at |-> now]
            /\ tool_out' = [done |-> TRUE, ret |-> r.ret, calls |-> <<>>, slept |-> 0]
            /\ files' = r.dir
            /\ UNCHANGED <<now, runVars>>

\* A second passes.
Tick ==
    /\ now < MaxClock
    /\ now' = now + 1
    /\ UNCHANGED <<files, tool_in, tool_out, runVars>>

NextSave ==
    \/ CallSaveEvents
    \/ Tick

SpecSave == InitSave /\ [][NextSave]_vars

----------------------------------------------------------------------------
(* Properties of the run *)

InLoop == pc \in {"Executing", "Rendering"}

\* The calls the loop has processed so far.
Processed == 1..Len(fate)

Registered(i) == tool_calls[i].name \in ToolNames

\* The position in results of the entry of the i-th proposed call, when it
\* has one: the calls before it that were not skipped, plus one.
EntryIndex(i) == Cardinality({j \in 1..i : fate[j].how # "skipped"})

\* C1: a tool call that raises never aborts its siblings.  While the loop
\* runs and when it is over, if every proposed name is registered then results
\* holds exactly one entry per processed call, in proposal order: the failure
\* entry 'Error with <name>: <error>' for a call that raised, the success
\* entry 'Tool: <name>\nResult: <text>' for every other; at the end there is
\* one entry per proposed call, and no run fails while executing tools.
C1_NoAbortOfSiblings ==
    /\ failedFrom # "Executing"
    /\ (InLoop /\ \A i \in 1..Len(tool_calls) : Registered(i)) =>
          /\ Len(fate) = idx - 1
          /\ Len(results) = Len(fate)
          /\ pc = "Rendering" => Len(results) = Len(tool_calls)
          /\ \A i \in 1..Len(fate) :
                /\ fate[i].how \in {"ok", "raised"}
                /\ i <= Len(results)
                /\ results[i] =
                     IF fate[i].how = "raised"
                     THEN <<"Error with ", tool_calls[i].name, ": ">>
                             \o fate[i].text
                     ELSE <<"Tool: ", tool_calls[i].name, "\nResult: ">>
                             \o fate[i].text

\* Three registered calls, the second of which raised, and the loop is over.
C1_Witness ==
    /\ pc = "Rendering"
    /\ Len(tool_calls) = 3
    /\ \A i \in 1..3 : Registered(i)
    /\ fate[1].how = "ok"
    /\ fate[2].how = "raised"
    /\ fate[3].how = "ok"
    /\ Len(results) = 3
    /\ StartsWith(results[2], <<"Error with ">>)

\* C2: when the second request is sent, the combined-results block is the
\* placeholder 'No tools were executed.' exactly if the model proposed no
\* tool call or no proposed name is registered; and a run whose loop ends
\* with nothing executed does send the second request.
C2_PlaceholderIffNothingRan ==
    /\ pc = "Rendering" =>
          /\ (combined_results = <<"No tools were executed.">>)
                <=> (\A i \in 1..Len(tool_calls) : ~Registered(i))
          /\ log[Len(log)] = LlmPlain
    /\ (pc = "Executing" /\ idx > Len(tool_calls)) => ENABLED FinishExecuting

\* Two proposed calls, neither registered: the placeholder goes to the model.
C2_Witness ==
    /\ pc = "Rendering"
    /\ Len(tool_calls) = 2
    /\ \A i \in 1..2 : ~Registered(i)
    /\ combined_results = <<"No tools were executed.">>

\* C3: a proposed call whose name is not registered is skipped silently: it
\* gets no entry and no tool function runs for it, the run does not fail, and
\* every other processed call, before or after it, has run and has its entry.
C3_UnknownNameSkipped ==
    /\ failedFrom # "Executing"
    /\ InLoop =>
          /\ Len(fate) = idx - 1
          /\ pc = "Rendering" => Len(fate) = Len(tool_calls)
          /\ Len(results) = Cardinality({i \in Processed : Registered(i)})
          /\ \A i \in Processed :
                IF Registered(i)
                THEN /\ fate[i].how # "skipped"
                     /\ \E k \in 1..Len(log) : log[k] = ToolRun(i)
                     /\ EntryIndex(i) \in 1..Len(results)
                     /\ HasAt(results[EntryIndex(i)], 2, <<tool_calls[i].name>>)
                ELSE /\ fate[i].how = "skipped"
                     /\ \A k \in 1..Len(log) : log[k] # ToolRun(i)

\* An unregistered name first, registered calls after it, all executed.
C3_Witness ==
    /\ pc = "Rendering"
    /\ Len(tool_calls) = 3
    /\ ~Registered(1)
    /\ Registered(2)
    /\ Registered(3)
    /\ Len(results) = 2
    /\ fate[3].how = "ok"

NumberOf(ev) == Cardinality({k \in 1..Len(log) : log[k].ev = ev})

\* C4: a run fails only on a failed model call, in Planning or in Rendering,
\* never while executing tools.  The failed run shows one error and no result,
\* nothing was returned, the failed call was the last model call (one call
\* made when Planning failed, two when Rendering failed), and the run is over.
C4_ModelFailureIsFatal ==
    /\ (pc = "Failed") <=> (failedFrom # "none")
    /\ pc = "Failed" =>
          /\ failedFrom \in {"Planning", "Rendering"}
          /\ shown.kind = "error"
          /\ shown.error = ModelError
          /\ shown.value = None
          /\ output = NoOutput
          /\ NumberOf("llm_with_tools") = 1
          /\ NumberOf("llm") = (IF failedFrom = "Rendering" THEN 1 ELSE 0)
          /\ log[Len(log)].ev = (IF failedFrom = "Rendering" THEN "llm"
                                 ELSE "llm_with_tools")
          /\ ~ENABLED Next

\* Rendering fails after tools were executed.
C4_Witness ==
    /\ pc = "Failed"
    /\ failedFrom = "Rendering"
    /\ NumberOf("tool") = 2
    /\ "save_events" \in invoked

\* C5: a second response that does not parse ends the run in Done with the
\* raw text unchanged and the parse error, and nothing fails; a structured
\* result, a raw-text result and a failure are told apart, and the
\* troubleshooting tips are shown on a failure only.
C5_SoftFailure ==
    /\ (pc = "Done" /\ ~ParseOk(frontend, output)) =>
          /\ shown.kind = "raw"
          /\ shown.value = output
          /\ shown.error = ParseError
          /\ failedFrom = "none"
    /\ (pc = "Done" /\ ParseOk(frontend, output)) => shown.kind = "structured"
    /\ pc = "Failed" => shown.kind = "error"
    /\ shown.tips <=> (pc = "Failed")
    /\ pc = "Parse" => ENABLED Parse

\* JSON without events_found came back and the raw text is shown.
C5_Witness ==
    /\ pc = "Done"
    /\ output.json
    /\ "events_found" \notin output.fields
    /\ shown.kind = "raw"
    /\ shown.value = output

\* The nine fields of the structured output.
NineFields ==
    {"query", "city", "events_found", "news_highlights", "recommendations",
     "budget_friendly_options", "friend_group_suggestions", "sources",
     "tools_used"}

\* C6: in both front ends, a second response that lacks any one of the nine
\* fields query, city, events_found, news_highlights, recommendations,
\* budget_friendly_options, friend_group_suggestions, sources, tools_used is
\* a parse failure: the run ends with the raw text, not a structured result.
C6_NineRequiredFields ==
    (pc = "Done" /\ \E f \in NineFields : f \notin output.fields) =>
        shown.kind = "raw"

\* C7: every name in the tools_used list of a structured result is the name
\* of a tool that was looked up and invoked during the run.
C7_ToolsUsedWereInvoked ==
    (pc = "Done" /\ shown.kind = "structured") =>
        \A k \in 1..Len(shown.value.tools_used) :
            shown.value.tools_used[k] \in invoked

\* C8: the run makes the tool-selection call first and once, then executes
\* tools one after the other in proposal order, then makes the rendering call
\* once and last; it makes at most two model calls, never plans again and
\* never executes a tool once the rendering call is made.
C8_FixedOrder ==
    /\ (pc = "Idle") <=> (log = <<>>)
    /\ log # <<>> =>
          /\ log[1] = LlmWithTools
          /\ \A k \in 2..Len(log) : log[k] # LlmWithTools
          /\ \A k \in 1..Len(log) : (log[k] = LlmPlain) => (k = Len(log))
          /\ \A k \in 2..Len(log) : \A m \in 2..Len(log) :
                (k < m /\ log[k].ev = "tool" /\ log[m].ev = "tool")
                    => log[k].i < log[m].i
    /\ NumberOf("llm_with_tools") + NumberOf("llm") <= 2
    /\ pc = "Planning" => log = <<LlmWithTools>>
    /\ pc = "Executing" =>
          /\ NumberOf("llm") = 0
          /\ \A k \in 2..Len(log) : log[k].i < idx
    /\ pc \in {"Rendering", "Parse", "Done"} =>
          /\ log[Len(log)] = LlmPlain
          /\ NumberOf("llm_with_tools") = 1
          /\ NumberOf("llm") = 1
    /\ InLoop =>
          {log[k].i : k \in 2..Len(log)} \ {0}
             = {i \in Processed : Registered(i)}

\* A finished run that executed three tools between its two model calls.
C8_Witness ==
    /\ pc = "Done"
    /\ Len(log) = 5
    /\ log[1] = LlmWithTools
    /\ log[2] = ToolRun(1)
    /\ log[3] = ToolRun(2)
    /\ log[4] = ToolRun(3)
    /\ log[5] = LlmPlain

\* C9: when the file write inside save_events fails, the run goes on and the
\* call's entry in the aggregate is the failure entry
\* 'Error with save_events: ...', not a success entry.
C9_SaveFailureIsFailureEntry ==
    /\ failedFrom # "Executing"
    /\ InLoop =>
          \A i \in Processed :
             ( /\ tool_calls[i].name = "save_events"
               /\ fate[i].how # "skipped"
               /\ Required("save_events") \subseteq DOMAIN tool_calls[i].args
               /\ fate[i].env.io # "ok" )
             => StartsWith(results[EntryIndex(i)],
                           <<"Error with ", "save_events", ": ">>)

----------------------------------------------------------------------------
(* Properties of the tools *)

IsSearchTool(name) == name \in {"search_local_events", "search_melbourne_news"}

\* The label that opens a segment of results and the one that opens a
\* segment of failure text.
SegmentLabels(name) ==
    IF name = "search_local_events"
    THEN [ok |-> "Search Query: ", fail |-> "Search failed for '"]
    ELSE [ok |-> "News Search: ", fail |-> "News search failed for '"]

\* The query variants of a search tool, in their fixed order.
VariantsOf(name, arg) ==
    IF name = "search_local_events"
    THEN << arg \o <<" events in ", "Melbourne", " Australia this week">>,
            arg \o <<" in ", "Melbourne", " VIC upcoming events">>,
            <<"things to do ", "Melbourne", " ">> \o arg \o <<" this weekend">> >>
    ELSE << <<"Melbourne Australia ">> \o arg \o <<" news today">>,
            <<"Melbourne ">> \o arg \o <<" latest updates">> >>

\* Where the segments of a returned text start.
SegmentStarts(text, lab) ==
    {p \in 1..Len(text) : text[p] \in {lab.ok, lab.fail}}

\* The k-th smallest element of a set of numbers.
Nth(P, k) == CHOOSE p \in P : Cardinality({q \in P : q < p}) = k - 1

\* C10: a search tool never raises on a failed search call; it hands every
\* query variant to the search service exactly once, in the fixed order, and
\* the text it returns holds exactly one segment per variant, in that order,
\* the k-th naming the k-th variant and carrying the results of its search
\* call, or its failure text when that call failed.
C10_EveryVariantHasItsSegment ==
    (tool_out.done /\ IsSearchTool(tool_in.tool)) =>
        LET text == tool_out.ret.text
            lab  == SegmentLabels(tool_in.tool)
            vs   == VariantsOf(tool_in.tool, tool_in.arg)
            P    == SegmentStarts(text, lab)
        IN  /\ ~tool_out.ret.raised
            /\ tool_out.calls = vs
            /\ Cardinality(P) = Len(vs)
            /\ \A k \in 1..Len(vs) :
                  LET a == tool_in.answers[k]
                  IN  IF a.ok
                      THEN HasAt(text, Nth(P, k),
                                 <<lab.ok>> \o vs[k] \o <<"\n\n", "Results:\n">>
                                    \o FormatHits(a.hits))
                      ELSE HasAt(text, Nth(P, k),
                                 <<lab.fail>> \o vs[k] \o <<"': ">> \o a.err)

\* search_local_events whose second search call failed and whose first and
\* third found something; the text returned holds three segments.
C10_Witness ==
    /\ tool_out.done
    /\ tool_in.tool = "search_local_events"
    /\ tool_in.answers[1].ok /\ Len(tool_in.answers[1].hits) = 1
    /\ ~tool_in.answers[2].ok
    /\ tool_in.answers[3].ok
    /\ Cardinality(SegmentStarts(tool_out.ret.text,
                                 SegmentLabels("search_local_events"))) = 3

----------------------------------------------------------------------------
(* Properties of the budget analyzer *)

BudgetDone == tool_out.done /\ tool_in.tool = "analyze_event_budget"

\* The lines of the input text, as given.
InputLines == Split(tool_in.arg, "\n")

\* Case-insensitive containment of one of the keywords.
Mentions(line, keywords) ==
    \E k \in 1..Len(keywords) :
        \E p \in 1..Len(line) :
            HasAt([j \in 1..Len(line) |-> LowerToken(line[j])], p, keywords[k])

\* The input lines that belong to the free bucket, and to the paid bucket.
FreeLineNumbers ==
    {i \in 1..Len(InputLines) : Mentions(InputLines[i], free_keywords)}

PaidLineNumbers ==
    {i \in 1..Len(InputLines) :
        /\ ~Mentions(InputLines[i], free_keywords)
        /\ Mentions(InputLines[i], budget_keywords)}

\* Reading the report: the position of a piece of its template.
PositionOf(text, piece) == CHOOSE p \in 1..Len(text) : text[p] = piece

FreeHeader == " AUD)\n\nFREE EVENTS FOUND: "
PaidHeader == "\n\nPAID EVENTS FOUND: "
TipFooter ==
    "\n\nTIP: Always verify prices on official event pages as pricing may have changed.\n    "

\* The counts the report states.
StatedFree(text) == text[PositionOf(text, FreeHeader) + 1]
StatedPaid(text) == text[PositionOf(text, PaidHeader) + 1]

\* What the report prints under each count.
FreeBlock(text) ==
    SubSeq(text, PositionOf(text, FreeHeader) + 3,
           PositionOf(text, PaidHeader) - 1)

PaidBlock(text) ==
    SubSeq(text, PositionOf(text, PaidHeader) + 3,
           PositionOf(text, TipFooter) - 1)

\* The lines listed in a block: none when the block is the 'none found'
\* message.
Listed(block, none_found) ==
    IF block = <<none_found>> THEN <<>> ELSE Split(block, "\n")

ListedFree(text) ==
    Listed(FreeBlock(text),
           "No clearly marked free events found in the search results")

ListedPaid(text) ==
    Listed(PaidBlock(text),
           "No clearly marked paid events found in the search results")

\* C11: each input line is classified on its own and into at most one bucket:
\* free if it contains a free keyword, otherwise paid if it contains a paid
\* keyword, otherwise neither.  The free count is the number of lines with a
\* free keyword, the paid count the number of lines with a paid keyword and
\* no free keyword, no line listed as paid contains a free keyword, and the
\* two counts together do not exceed the number of lines.
C11_BucketsAreExclusive ==
    BudgetDone =>
        LET text == tool_out.ret.text
        IN  /\ StatedFree(text) = ToString(Cardinality(FreeLineNumbers))
            /\ StatedPaid(text) = ToString(Cardinality(PaidLineNumbers))
            /\ Cardinality(FreeLineNumbers) + Cardinality(PaidLineNumbers)
                  <= Len(InputLines)
            /\ \A k \in 1..Len(ListedPaid(text)) :
                  ~Mentions(ListedPaid(text)[k], free_keywords)
            /\ \A k \in 1..Len(ListedFree(text)) :
                  Mentions(ListedFree(text)[k], free_keywords)

\* 'free entry but $5 donation' among the lines, and a paid line: the report
\* counts one free line and one paid line.
C11_Witness ==
    /\ BudgetDone
    /\ Len(InputLines) = 2
    /\ InputLines[1] =
          <<"free", " ", "entry", " ", "but", " ", "$", "5", " ", "donation">>
    /\ InputLines[2] = <<" ", "Ticket", " ", "$", "20", " ">>
    /\ StatedFree(tool_out.ret.text) = "1"
    /\ StatedPaid(tool_out.ret.text) = "1"

Smaller(a, b) == IF a < b THEN a ELSE b

\* C12: for each bucket the report states the full number of lines in the
\* bucket and lists the first five of them at most, in input order: with n
\* lines in the bucket the count is n and min(n, 5) lines are listed, the
\* k-th listed line coming from the k-th input line of the bucket.
C12_CountFullListCapped ==
    BudgetDone =>
        LET text == tool_out.ret.text
            nf   == Cardinality(FreeLineNumbers)
            np   == Cardinality(PaidLineNumbers)
        IN  /\ StatedFree(text) = ToString(nf)
            /\ StatedPaid(text) = ToString(np)
            /\ Len(ListedFree(text)) = Smaller(nf, 5)
            /\ Len(ListedPaid(text)) = Smaller(np, 5)
            /\ \A k \in 1..Len(ListedFree(text)) :
                  Lower(ListedFree(text)[k])
                     = Lower(Strip(InputLines[Nth(FreeLineNumbers, k)]))
            /\ \A k \in 1..Len(ListedPaid(text)) :
                  Lower(ListedPaid(text)[k])
                     = Lower(Strip(InputLines[Nth(PaidLineNumbers, k)]))

\* Six free lines and no paid line: count 6, five lines listed.
C12_Witness ==
    /\ BudgetDone
    /\ Cardinality(FreeLineNumbers) = 6
    /\ Cardinality(PaidLineNumbers) = 0
    /\ StatedFree(tool_out.ret.text) = "6"
    /\ Len(ListedFree(tool_out.ret.text)) = 5
    /\ ListedPaid(tool_out.ret.text) = <<>>

\* C13: each line listed in the report is the input line it comes from with
\* the surrounding whitespace removed and nothing else changed, letter case
\* included.
C13_ListedLinesVerbatim ==
    BudgetDone =>
        LET text == tool_out.ret.text
        IN  /\ \A k \in 1..Len(ListedFree(text)) :
                  ListedFree(text)[k] = Strip(InputLines[Nth(FreeLineNumbers, k)])
            /\ \A k \in 1..Len(ListedPaid(text)) :
                  ListedPaid(text)[k] = Strip(InputLines[Nth(PaidLineNumbers, k)])

----------------------------------------------------------------------------
(* Properties of save_events *)

\* The call just made reported a successful save.
SavedNow ==
    /\ tool_out'.done
    /\ tool_in'.tool = "save_events"
    /\ StartsWith(tool_out'.ret.text, <<"Events and news successfully saved to ">>)

\* C14: a file written by an earlier successful call still has the content
\* that call wrote after any later successful call, two calls within the same
\* clock second included.
C14_EarlierExportsKept ==
    [][SavedNow =>
          \A f \in DOMAIN files :
              files[f] # <<>> => (f \in DOMAIN files' /\ files'[f] = files[f])]_vars

----------------------------------------------------------------------------
(* The two copies of run_agent *)

\* What the k-th tool call did, as recorded during the run.
Outcome(k) == [raised |-> fate[k].how = "raised", text |-> fate[k].text]

\* The tool the front end fe runs for the k-th tool call, with its arguments.
Dispatched(fe, k) ==
    IF LookupOf(fe, tool_calls[k].name) = 0
    THEN [tool |-> "none", args |-> NoArgs]
    ELSE [tool |-> ToolsOf(fe)[LookupOf(fe, tool_calls[k].name)],
          args |-> tool_calls[k].args]

\* The results list the front end fe builds from the first k tool calls of
\* the response, given the recorded outcomes of the tools.
RECURSIVE Replay(_, _)
Replay(fe, k) ==
    IF k = 0 THEN <<>>
    ELSE Replay(fe, k - 1)
         \o (IF LookupOf(fe, tool_calls[k].name) = 0 THEN <<>>
             ELSE BoundaryOf(fe, tool_calls[k].name, Outcome(k)).entries)

\* C15: given the same first response and the same tool outcomes, the loop of
\* main.py and the loop of app.py run the same tools with the same arguments
\* in the same order, build the same results list (the one the running front
\* end holds) and produce the same combined-results block.
C15_SameDispatchInBothFrontEnds ==
    pc \in {"Executing", "Rendering"} =>
        /\ \A k \in 1..Len(fate) : Dispatched("cli", k) = Dispatched("app", k)
        /\ \A k \in 1..Len(fate) :
              (fate[k].how = "skipped") = (Dispatched("app", k).tool = "none")
        /\ results = Replay("cli", Len(fate))
        /\ results = Replay("app", Len(fate))
        /\ pc = "Rendering" =>
              /\ combined_results = Combine(Replay("app", Len(fate)))
              /\ combined_results = AppCombine(Replay("cli", Len(fate)))

\* The app front end has gone through a response with a call it skipped, a
\* tool that raised and a tool that returned, and holds the block main.py
\* would have built.
C15_Witness ==
    /\ frontend = "app"
    /\ pc = "Rendering"
    /\ Len(results) = 2
    /\ \E i, j, k \in 1..Len(fate) :
          /\ fate[i].how = "skipped"
          /\ fate[j].how = "raised"
          /\ fate[k].how = "ok"
    /\ combined_results = Combine(results)
    /\ combined_results # Placeholder

====
